---- MODULE Spec2Model ----
(***************************************************************************)
(* A model of exe2.cpp, the STL -> MITL demonstration pipeline:            *)
(* extraction of atomic propositions, their renaming, the synthesized      *)
(* signal, the stable partition points, the partitioning of the temporal   *)
(* operator and the file writer.                                           *)
(*                                                                         *)
(* A std::string is a sequence of one-character strings.  A double is its  *)
(* exact value in units of 2^-56, held in three limbs, and every addition  *)
(* rounds to 53 significant bits, ties to even, as IEEE 754 does.          *)
(***************************************************************************)
EXTENDS Integers, Sequences, FiniteSets, TLC

VARIABLES
    pc,               \* the statement of the program about to run
    stlFormula,       \* main: std::string stlFormula
    atomicProps,      \* main: std::vector<std::string> atomicProps
    propMap,          \* main: std::map<std::string, std::string> propMap
    t,                \* synthesizeSignal: the loop variable double t
    signal,           \* the vector of (time, (y, z, x)) samples
    i,                \* constructStablePartitions: the loop index
    partitionPoints,  \* std::set<int> partitionPoints
    mitlFormula,      \* main: std::string mitlFormula, as replaceAtomicProps returned it
    partitionedFormula, \* what partitionTemporalOperators returned (main stores it
                      \* back into mitlFormula; kept apart to keep its argument)
    renamedAgain,     \* replaceAtomicProps applied to its own output
    filename,         \* main: the token read into filename
    outFile,          \* the std::ofstream of writeMITLToFile
    cout,             \* what writeMITLToFile put on standard output
    cerr,             \* what was put on the diagnostic stream
    exitStatus        \* the exit status of the process, -1 while it runs

renameVars == <<stlFormula, atomicProps, propMap, mitlFormula, renamedAgain>>
signalVars == <<t, signal, i, partitionPoints>>
fileVars == <<filename, outFile, cout, cerr>>

vars == <<pc, renameVars, signalVars, partitionedFormula, fileVars, exitStatus>>

----------------------------------------------------------------------------
(* Characters.                                                             *)

Digits == <<"0", "1", "2", "3", "4", "5", "6", "7", "8", "9">>

Lowers == <<"a", "b", "c", "d", "e", "f", "g", "h", "i", "j", "k", "l", "m",
            "n", "o", "p", "q", "r", "s", "t", "u", "v", "w", "x", "y", "z">>

Uppers == <<"A", "B", "C", "D", "E", "F", "G", "H", "I", "J", "K", "L", "M",
            "N", "O", "P", "Q", "R", "S", "T", "U", "V", "W", "X", "Y", "Z">>

Range(s) == {s[k] : k \in 1..Len(s)}

IndexIn(s, c) == CHOOSE k \in 1..Len(s) : s[k] = c

DigitChars == Range(Digits)

WordChars == Range(Digits) \cup Range(Lowers) \cup Range(Uppers) \cup {"_"}

IsDigit(c) == c \in DigitChars

\* \w of the ECMAScript grammar: letters, digits and the underscore
IsWord(c) == c \in WordChars

\* \s, as far as the inputs here go
IsSpace(c) == c = " "

\* [\d\.]
IsNumCh(c) == IsDigit(c) \/ c = "."

\* The one non-ASCII character of the program, U+2227, kept as one element.
Wedge == "/\\"

\* The byte value std::string compares by.
Code(c) ==
    IF c = " " THEN 32
    ELSE IF c = "(" THEN 40
    ELSE IF c = ")" THEN 41
    ELSE IF c = "," THEN 44
    ELSE IF c = "." THEN 46
    ELSE IF IsDigit(c) THEN 47 + IndexIn(Digits, c)
    ELSE IF c = "<" THEN 60
    ELSE IF c = "=" THEN 61
    ELSE IF c = ">" THEN 62
    ELSE IF c \in Range(Uppers) THEN 64 + IndexIn(Uppers, c)
    ELSE IF c = "[" THEN 91
    ELSE IF c = "]" THEN 93
    ELSE IF c = "_" THEN 95
    ELSE IF c \in Range(Lowers) THEN 96 + IndexIn(Lowers, c)
    ELSE 226

----------------------------------------------------------------------------
(* Doubles.                                                                *)

Limb == 2^28

RECURSIVE FloorLog2(_)
FloorLog2(n) == IF n < 2 THEN 0 ELSE 1 + FloorLog2(n \div 2)

\* The double 0.0 and the double nearest to 0.1, 0x1999999999999A * 2^-56.
DZero == [hi |-> 0, mid |-> 0, lo |-> 0]
DTenth == [hi |-> 0, mid |-> 26843545, lo |-> 161061274]

\* The unit in the last place of a value, in units of 2^-56.
Ulp(d) ==
    IF d.hi > 0 THEN 2^(4 + FloorLog2(d.hi))
    ELSE IF FloorLog2(d.mid) > 24 THEN 2^(FloorLog2(d.mid) - 24)
    ELSE 1

Carry(d) ==
    LET m == d.mid + d.lo \div Limb
    IN  [hi |-> d.hi + m \div Limb, mid |-> m % Limb, lo |-> d.lo % Limb]

\* Round to nearest, ties to even.
DRound(d) ==
    LET u  == Ulp(d)
        q  == d.lo \div u
        r  == d.lo % u
        up == IF 2 * r > u \/ (2 * r = u /\ q % 2 = 1) THEN 1 ELSE 0
    IN  Carry([hi |-> d.hi, mid |-> d.mid, lo |-> (q + up) * u])

\* a + b on doubles
DAdd(a, b) ==
    DRound(Carry([hi |-> a.hi + b.hi, mid |-> a.mid + b.mid, lo |-> a.lo + b.lo]))

\* d < n, d >= n and d <= n for an integer n
DLess(d, n) == d.hi < n
DGeq(d, n) == d.hi >= n
DLeq(d, n) == d.hi < n \/ (d.hi = n /\ d.mid = 0 /\ d.lo = 0)

\* std::ceil in the place of std::round
RoundToIntCeil(d) == d.hi + (IF d.mid > 0 \/ d.lo > 0 THEN 1 ELSE 0)

\* static_cast<int>(std::round(d)) for d >= 0: halves round away from zero
RoundToInt(d) == d.hi + (IF 2 * d.mid >= Limb THEN 1 ELSE 0)

----------------------------------------------------------------------------
(* synthesizeSignal and constructStablePartitions.                         *)

\* double T = 30 of main
T == 30

\* z without its upper end
zNoUpper(d) == DGeq(d, 5)

y(d) == DLess(d, 10)
z(d) == DGeq(d, 5) /\ DLess(d, 15)
x(d) == DGeq(d, 8) /\ DLess(d, 20)

Sample(d) == [first |-> d, second |-> <<y(d), z(d), x(d)>>]

\* one iteration of for (double t = 0; t <= T; t += 0.1)
SynthStep ==
    /\ pc = "synthesize"
    /\ DLeq(t, T)
    /\ signal' = Append(signal, Sample(t))
    /\ t' = DAdd(t, DTenth)
    /\ UNCHANGED <<pc, i, partitionPoints, renameVars, partitionedFormula,
                   fileVars, exitStatus>>

\* the loop ends, the signal is returned and constructStablePartitions starts
SynthReturn ==
    /\ pc = "synthesize"
    /\ ~DLeq(t, T)
    /\ pc' = "construct"
    /\ i' = 1
    /\ partitionPoints' = {}
    /\ UNCHANGED <<t, signal, renameVars, partitionedFormula, fileVars,
                   exitStatus>>

\* one iteration of for (size_t i = 1; i < signal.size(); ++i); the model's
\* sequences start at 1, so signal[i] of the code is signal[i + 1] here
ConstructStep ==
    /\ pc = "construct"
    /\ i < Len(signal)
    /\ partitionPoints' =
          IF signal[i + 1].second # signal[i].second
          THEN partitionPoints \cup {RoundToInt(signal[i + 1].first)}
          ELSE partitionPoints
    /\ i' = i + 1
    /\ UNCHANGED <<pc, t, signal, renameVars, partitionedFormula, fileVars,
                   exitStatus>>

ConstructReturn(next) ==
    /\ pc = "construct"
    /\ ~(i < Len(signal))
    /\ pc' = next
    /\ UNCHANGED <<renameVars, signalVars, partitionedFormula, fileVars,
                   exitStatus>>

----------------------------------------------------------------------------
(* Strings and the pieces of the regular expressions.                      *)

\* the character at position k, or no character at all outside the string
At(s, k) == IF k \in 1..Len(s) THEN s[k] ELSE ""

\* \b before position k: exactly one of the two neighbours is a word character
WordBoundary(s, k) == IsWord(At(s, k - 1)) # IsWord(At(s, k))

\* the literal lit stands at position k
HasAt(s, k, lit) == \A j \in 1..Len(lit) : At(s, k + j - 1) = lit[j]

\* \s* from position k, greedy: the position after the run
RECURSIVE SkipSpaces(_, _)
SkipSpaces(s, k) == IF IsSpace(At(s, k)) THEN SkipSpaces(s, k + 1) ELSE k

\* [\d\.]* from position k, greedy: the position after the run
RECURSIVE NumEnd(_, _)
NumEnd(s, k) == IF IsNumCh(At(s, k)) THEN NumEnd(s, k + 1) ELSE k

\* \d* from position k
RECURSIVE DigitsEnd(_, _)
DigitsEnd(s, k) == IF IsDigit(At(s, k)) THEN DigitsEnd(s, k + 1) ELSE k

\* \w* from position k
RECURSIVE WordEnd(_, _)
WordEnd(s, k) == IF IsWord(At(s, k)) THEN WordEnd(s, k + 1) ELSE k

RECURSIVE DigitsValue(_)
DigitsValue(s) ==
    IF s = <<>> THEN 0
    ELSE 10 * DigitsValue(SubSeq(s, 1, Len(s) - 1)) + (IndexIn(Digits, s[Len(s)]) - 1)

\* static_cast<int>(std::stod(s)) for a string of digits and periods: stod
\* reads digits, one period and digits, and throws std::invalid_argument
\* when that holds no digit; the cast keeps the integer part.
StodInt(s) ==
    LET e1 == DigitsEnd(s, 1)
        e2 == IF At(s, e1) = "." THEN DigitsEnd(s, e1 + 1) ELSE e1
    IN  [ok    |-> e1 > 1 \/ e2 > e1 + 1,
         value |-> DigitsValue(SubSeq(s, 1, e1 - 1))]

\* std::to_string of an int >= 0
RECURSIVE to_string(_)
to_string(n) ==
    IF n < 10 THEN <<Digits[n + 1]>>
    ELSE to_string(n \div 10) \o <<Digits[(n % 10) + 1]>>

----------------------------------------------------------------------------
(* partitionTemporalOperators.                                             *)

UntilText == <<"(", "(", "p", "2", ")", " ", "U", " ", "(", "p", "3", ")", ")">>

\* gPattern tried at position k:
\*   \bG\s*\[\s*([\d\.]+)\s*,\s*([\d\.]+)\s*\]\s*\(\(p2\)\s*U\s*\(p3\)\)
\* GEnds gives the position after each greedy run.  Every repetition is followed by a character outside its class, so the
\* greedy run is the only way to match.
GEnds(s, k) ==
    LET p1  == SkipSpaces(s, k + 1)
        p2  == SkipSpaces(s, p1 + 1)
        p3  == NumEnd(s, p2)
        p4  == SkipSpaces(s, p3)
        p5  == SkipSpaces(s, p4 + 1)
        p6  == NumEnd(s, p5)
        p7  == SkipSpaces(s, p6)
        p8  == SkipSpaces(s, p7 + 1)
        p9  == SkipSpaces(s, p8 + 5)
        p10 == SkipSpaces(s, p9 + 1)
    IN  <<p1, p2, p3, p4, p5, p6, p7, p8, p9, p10>>

GMatches(s, k) ==
    /\ At(s, k) = "G"
    /\ WordBoundary(s, k)
    /\ LET p == GEnds(s, k)
       IN  /\ At(s, p[1]) = "["
           /\ p[3] > p[2]
           /\ At(s, p[4]) = ","
           /\ p[6] > p[5]
           /\ At(s, p[7]) = "]"
           /\ HasAt(s, p[8], <<"(", "(", "p", "2", ")">>)
           /\ At(s, p[9]) = "U"
           /\ HasAt(s, p[10], <<"(", "p", "3", ")", ")">>)

\* the match at k: where it starts and ends, and its two sub-matches
GMatchAt(s, k) ==
    LET p == GEnds(s, k)
    IN  [from |-> k,
         end  |-> p[10] + 5,
         m1   |-> SubSeq(s, p[2], p[3] - 1),
         m2   |-> SubSeq(s, p[5], p[6] - 1)]

\* the positions where gPattern matches
GStarts(s) == {k \in 1..Len(s) : GMatches(s, k)}

Min(S) == CHOOSE m \in S : \A n \in S : m <= n
Max(S) == CHOOSE m \in S : \A n \in S : m >= n

\* std::regex_search: the leftmost match
GSearch(s) == GMatchAt(s, Min(GStarts(s)))

\* std::regex_replace(s, gPattern, rep) from position k on: every match,
\* left to right and not overlapping, gives way to rep
RECURSIVE GReplaceFrom(_, _, _)
GReplaceFrom(s, k, rep) ==
    IF k > Len(s) THEN <<>>
    ELSE IF GMatches(s, k) THEN rep \o GReplaceFrom(s, GMatchAt(s, k).end, rep)
    ELSE <<s[k]>> \o GReplaceFrom(s, k + 1, rep)

\* "G [" + to_string(prev) + ", " + to_string(t) + "] ((p2) U (p3)) "
Conjunct(lo, hi) ==
    <<"G", " ", "[">> \o to_string(lo) \o <<",", " ">> \o to_string(hi)
        \o <<"]", " ">> \o UntilText \o <<" ">>

\* the loop with prev = t in the place of prev = t + 1
RECURSIVE PartitionLoopSameStart(_, _, _, _, _)
PartitionLoopSameStart(points, from, prev, b, replacement) ==
    LET rest == {p \in points : p >= from}
        tt   == Min(rest)
    IN  IF rest = {} \/ tt > b THEN [prev |-> prev, replacement |-> replacement]
        ELSE PartitionLoopSameStart(points, tt + 1, tt, b,
                 IF prev <= tt
                 THEN replacement \o Conjunct(prev, tt)
                          \o (IF tt < b THEN <<Wedge, " ">> ELSE <<>>)
                 ELSE replacement)

\* the loop with t <= b in the place of t < b before the separator
RECURSIVE PartitionLoopDangling(_, _, _, _, _)
PartitionLoopDangling(points, from, prev, b, replacement) ==
    LET rest == {p \in points : p >= from}
        tt   == Min(rest)
    IN  IF rest = {} \/ tt > b THEN [prev |-> prev, replacement |-> replacement]
        ELSE PartitionLoopDangling(points, tt + 1, tt + 1, b,
                 IF prev <= tt
                 THEN replacement \o Conjunct(prev, tt)
                          \o (IF tt <= b THEN <<Wedge, " ">> ELSE <<>>)
                 ELSE replacement)

\* the while loop: it stands at the least point >= from (lower_bound at
\* first, then ++it), and the loop runs while that point is <= b
RECURSIVE PartitionLoop(_, _, _, _, _)
PartitionLoop(points, from, prev, b, replacement) ==
    LET rest == {p \in points : p >= from}
        tt   == Min(rest)
    IN  IF rest = {} \/ tt > b THEN [prev |-> prev, replacement |-> replacement]
        ELSE PartitionLoop(points, tt + 1, tt + 1, b,
                 IF prev <= tt
                 THEN replacement \o Conjunct(prev, tt)
                          \o (IF tt < b THEN <<Wedge, " ">> ELSE <<>>)
                 ELSE replacement)

\* the replacement without the conjunct after the loop
ReplacementNoTail(points, a, b) == PartitionLoop(points, a, a, b, <<>>).replacement

\* the replacement string built for bounds a and b
Replacement(points, a, b) ==
    LET l == PartitionLoop(points, a, a, b, <<>>)
    IN  IF l.prev <= b THEN l.replacement \o Conjunct(l.prev, b) ELSE l.replacement

\* the value partitionTemporalOperators returns
PartitionTemporalOperators(formula, points) ==
    IF GStarts(formula) = {} THEN formula
    ELSE LET match == GSearch(formula)
         IN  GReplaceFrom(formula, 1,
                 Replacement(points, StodInt(match.m1).value, StodInt(match.m2).value))

\* std::stod throws on a bound without a digit
PartitionThrows(formula) ==
    /\ GStarts(formula) # {}
    /\ ~(StodInt(GSearch(formula).m1).ok /\ StodInt(GSearch(formula).m2).ok)

\* Step 7 of main.  An exception nobody catches ends the process in
\* std::terminate, which is abort(): status 134.
Partition(next) ==
    /\ pc = "partition"
    /\ IF PartitionThrows(mitlFormula)
       THEN /\ pc' = "aborted"
            /\ exitStatus' = 134
            /\ UNCHANGED partitionedFormula
       ELSE /\ pc' = next
            /\ partitionedFormula' = PartitionTemporalOperators(mitlFormula, partitionPoints)
            /\ UNCHANGED exitStatus
    /\ UNCHANGED <<renameVars, signalVars, fileVars>>

----------------------------------------------------------------------------
(* extractAtomicPropositions, the proposition map and replaceAtomicProps.  *)

\* propPattern tried at position k: (\w+\s*[<>]=?\s*[\d\.]+).  The position
\* after the match, or 0 when there is none.  Here too every repetition is
\* followed by a character outside its class.
PropMatchEnd(s, k) ==
    LET p1 == WordEnd(s, k)
        p2 == SkipSpaces(s, p1)
        p3 == IF At(s, p2 + 1) = "=" THEN p2 + 2 ELSE p2 + 1
        p4 == SkipSpaces(s, p3)
        p5 == NumEnd(s, p4)
    IN  IF p1 > k /\ At(s, p2) \in {"<", ">"} /\ p5 > p4 THEN p5 ELSE 0

\* the sregex_iterator loop from position k on: the matches from left to
\* right, each search starting where the match before ended
RECURSIVE ExtractFrom(_, _)
ExtractFrom(s, k) ==
    IF k > Len(s) THEN <<>>
    ELSE IF PropMatchEnd(s, k) > 0
         THEN <<SubSeq(s, k, PropMatchEnd(s, k) - 1)>> \o ExtractFrom(s, PropMatchEnd(s, k))
         ELSE ExtractFrom(s, k + 1)

ExtractAtomicPropositions(formula) == ExtractFrom(formula, 1)

\* operator< of std::string: the first differing byte decides, a proper
\* prefix is less
RECURSIVE StrLess(_, _)
StrLess(a, b) ==
    IF b = <<>> THEN FALSE
    ELSE IF a = <<>> THEN TRUE
    ELSE IF Code(a[1]) # Code(b[1]) THEN Code(a[1]) < Code(b[1])
    ELSE StrLess(Tail(a), Tail(b))

\* insert in the place of operator[]: a key already there keeps its value
MapInsert(m, key, value) ==
    IF \E k \in 1..Len(m) : m[k].first = key THEN m
    ELSE LET below == SelectSeq(m, LAMBDA e : StrLess(e.first, key))
             above == SelectSeq(m, LAMBDA e : StrLess(key, e.first))
         IN  below \o <<[first |-> key, second |-> value]>> \o above

\* propMap[key] = value.  A std::map is the sequence of its pairs in the
\* order of their keys.
MapAssign(m, key, value) ==
    IF \E k \in 1..Len(m) : m[k].first = key
    THEN [k \in 1..Len(m) |->
             IF m[k].first = key THEN [first |-> key, second |-> value] ELSE m[k]]
    ELSE LET below == SelectSeq(m, LAMBDA e : StrLess(e.first, key))
             above == SelectSeq(m, LAMBDA e : StrLess(key, e.first))
         IN  below \o <<[first |-> key, second |-> value]>> \o above

\* the loop of main over atomicProps[0 .. n - 1], whose index i is n - 1 in
\* its last iteration: the value is "p" + std::to_string(i + 1)
RECURSIVE BuildPropMap(_, _)
BuildPropMap(props, n) ==
    IF n = 0 THEN <<>>
    ELSE MapAssign(BuildPropMap(props, n - 1), props[n], <<"p">> \o to_string(n))

\* one character of a pattern made of a proposition's text against one of
\* the formula: the period stands for any character, the others for themselves
PatternChar(p, c) == c # "" /\ (p = "." \/ p = c)

\* the pattern without its two \b
KeyMatchesNoBoundary(s, k, key) ==
    \A j \in 1..Len(key) : PatternChar(key[j], At(s, k + j - 1))

\* std::regex("\\b" + key + "\\b") tried at position k
KeyMatches(s, k, key) ==
    /\ WordBoundary(s, k)
    /\ \A j \in 1..Len(key) : PatternChar(key[j], At(s, k + j - 1))
    /\ WordBoundary(s, k + Len(key))

\* std::regex_replace(s, regex, name) from position k on
RECURSIVE KeyReplaceFrom(_, _, _, _)
KeyReplaceFrom(s, k, key, name) ==
    IF k > Len(s) THEN <<>>
    ELSE IF KeyMatches(s, k, key) THEN name \o KeyReplaceFrom(s, k + Len(key), key, name)
    ELSE <<s[k]>> \o KeyReplaceFrom(s, k + 1, key, name)

\* the loop over the first n pairs of the map, in the map's order
RECURSIVE ReplaceFirst(_, _, _)
ReplaceFirst(formula, map, n) ==
    IF n = 0 THEN formula
    ELSE KeyReplaceFrom(ReplaceFirst(formula, map, n - 1), 1, map[n].first, map[n].second)

ReplaceAtomicProps(formula, map) == ReplaceFirst(formula, map, Len(map))

\* Step 2 of main
Extract(next) ==
    /\ pc = "extract"
    /\ atomicProps' = ExtractAtomicPropositions(stlFormula)
    /\ pc' = next
    /\ UNCHANGED <<stlFormula, propMap, mitlFormula, renamedAgain, signalVars,
                   partitionedFormula, fileVars, exitStatus>>

\* Step 3 of main
BuildMap(next) ==
    /\ pc = "map"
    /\ propMap' = BuildPropMap(atomicProps, Len(atomicProps))
    /\ pc' = next
    /\ UNCHANGED <<stlFormula, atomicProps, mitlFormula, renamedAgain, signalVars,
                   partitionedFormula, fileVars, exitStatus>>

\* Step 6 of main
Replace(next) ==
    /\ pc = "replace"
    /\ mitlFormula' = ReplaceAtomicProps(stlFormula, propMap)
    /\ pc' = next
    /\ UNCHANGED <<stlFormula, atomicProps, propMap, renamedAgain, signalVars,
                   partitionedFormula, fileVars, exitStatus>>

\* replaceAtomicProps once more, on its own result and with the same map
ReplaceAgain ==
    /\ pc = "again"
    /\ renamedAgain' = ReplaceAtomicProps(mitlFormula, propMap)
    /\ pc' = "done"
    /\ UNCHANGED <<stlFormula, atomicProps, propMap, mitlFormula, signalVars,
                   partitionedFormula, fileVars, exitStatus>>

NoFile == [name |-> <<>>, is_open |-> FALSE, data |-> <<>>]

InitSignal ==
    /\ pc = "synthesize"
    /\ stlFormula = <<>>
    /\ atomicProps = <<>>
    /\ propMap = <<>>
    /\ t = DZero
    /\ signal = <<>>
    /\ i = 0
    /\ partitionPoints = {}
    /\ mitlFormula = <<>>
    /\ partitionedFormula = <<>>
    /\ renamedAgain = <<>>
    /\ filename = <<>>
    /\ outFile = NoFile
    /\ cout = <<>>
    /\ cerr = <<>>
    /\ exitStatus = -1

SignalDone == ConstructReturn("done")

NextSignal == SynthStep \/ SynthReturn \/ ConstructStep \/ SignalDone

SpecSignal == InitSignal /\ [][NextSignal]_vars

----------------------------------------------------------------------------
(* writeMITLToFile and main.                                               *)

MitlExtension == <<".", "m", "i", "t", "l">>

\* filename.find(lit) from position k on: the first position where lit
\* stands, or 0 for std::string::npos
RECURSIVE FindFrom(_, _, _)
FindFrom(s, lit, k) ==
    IF k + Len(lit) - 1 > Len(s) THEN 0
    ELSE IF HasAt(s, k, lit) THEN k
    ELSE FindFrom(s, lit, k + 1)

\* the extension is looked for at the end of the name only
OutputNameBySuffix(name) ==
    IF Len(name) >= 5 /\ SubSeq(name, Len(name) - 4, Len(name)) = MitlExtension
    THEN name
    ELSE name \o MitlExtension

\* the name writeMITLToFile opens
OutputName(name) ==
    IF FindFrom(name, MitlExtension, 1) = 0 THEN name \o MitlExtension ELSE name

WrittenText == "MITL formula written to "
ErrorText == "Error: Unable to write to file "

\* the formula is written and success reported whether or not the file opened
WriteUnchecked(formula, name, opens) ==
    [outFile |-> [name |-> OutputName(name), is_open |-> opens, data |-> <<formula>>],
     cout    |-> <<<<WrittenText, OutputName(name)>>>>,
     cerr    |-> <<>>]

\* what writeMITLToFile does with the stream and the two outputs, the file
\* opening or not
WriteMITLToFile(formula, name, opens) ==
    [outFile |-> [name    |-> OutputName(name),
                  is_open |-> opens,
                  data    |-> IF opens THEN <<formula>> ELSE <<>>],
     cout    |-> IF opens THEN <<<<WrittenText, OutputName(name)>>>> ELSE <<>>,
     cerr    |-> IF opens THEN <<>> ELSE <<<<ErrorText, OutputName(name)>>>>]

MainFormulas ==
    {<<"x", " ", ">", " ", "0", ".", "3", " ", "a", "n", "d", " ", "G",
          " ", "[", "0", ",", " ", "2", "0", "]", " ", "(", "(", "y", " ",
          "<", " ", "2", ")", " ", "U", " ", "(", "z", " ", ">", " ", "1",
          ")", ")">>,
     <<"G", " ", "[", "0", ",", " ", "2", "0", "]", " ", "(", "(", "p",
          "2", ")", " ", "U", " ", "(", "p", "3", ")", ")">>,
     <<"G", "[", "1", "2", ",", "9", "]", "(", "(", "p", "2", ")", "U",
          "(", "p", "3", ")", ")", " ", "o", "r", " ", "G", " ", "[", "3",
          ",", " ", "1", "2", "]", " ", "(", "(", "p", "2", ")", " ", "U",
          " ", "(", "p", "3", ")", ")">>,
     <<"G", " ", "[", ".", ",", " ", "5", "]", " ", "(", "(", "p", "2",
          ")", " ", "U", " ", "(", "p", "3", ")", ")">>,
     <<"y", " ", "<", " ", "2", " ", "a", "n", "d", " ", "y", " ", "<",
          " ", "2">>,
     <<>>}

\* std::getline(std::cin, stlFormula)
ReadFormula ==
    /\ pc = "input"
    /\ stlFormula' \in MainFormulas
    /\ pc' = "extract"
    /\ UNCHANGED <<atomicProps, propMap, mitlFormula, renamedAgain, signalVars,
                   partitionedFormula, fileVars, exitStatus>>

MaxNameParts == 3

NameParts ==
    {<<"r", "e", "s", "u", "l", "t">>, <<"d", "a", "t", "a">>, MitlExtension,
     <<".", "b", "a", "k">>, <<".", "m", "i", "t">>, <<"l">>}

RECURSIVE Names(_)
Names(n) ==
    IF n = 0 THEN {<<>>}
    ELSE Names(n - 1) \cup {f \o part : <<f, part>> \in Names(n - 1) \X NameParts}

\* std::cin >> filename: one token without white space, or nothing at the
\* end of the input
ReadFilename ==
    /\ pc = "filename"
    /\ filename' \in Names(MaxNameParts)
    /\ pc' = "write"
    /\ UNCHANGED <<renameVars, signalVars, partitionedFormula, outFile, cout, cerr,
                   exitStatus>>

\* writeMITLToFile(mitlFormula, filename); return 0;  Whether the file opens
\* is up to the file system.
Write ==
    /\ pc = "write"
    /\ \E opens \in BOOLEAN :
          LET w == WriteMITLToFile(partitionedFormula, filename, opens)
          IN  /\ outFile' = w.outFile
              /\ cout' = cout \o w.cout
              /\ cerr' = cerr \o w.cerr
    /\ pc' = "done"
    /\ exitStatus' = 0
    /\ UNCHANGED <<renameVars, signalVars, partitionedFormula, filename>>

Init ==
    /\ pc = "input"
    /\ stlFormula = <<>>
    /\ atomicProps = <<>>
    /\ propMap = <<>>
    /\ t = DZero
    /\ signal = <<>>
    /\ i = 0
    /\ partitionPoints = {}
    /\ mitlFormula = <<>>
    /\ partitionedFormula = <<>>
    /\ renamedAgain = <<>>
    /\ filename = <<>>
    /\ outFile = NoFile
    /\ cout = <<>>
    /\ cerr = <<>>
    /\ exitStatus = -1

MainExtract == Extract("map")
MainBuildMap == BuildMap("synthesize")
MainConstructReturn == ConstructReturn("replace")
MainReplace == Replace("partition")
MainPartition == Partition("filename")

Next ==
    \/ ReadFormula
    \/ MainExtract
    \/ MainBuildMap
    \/ SynthStep
    \/ SynthReturn
    \/ ConstructStep
    \/ MainConstructReturn
    \/ MainReplace
    \/ MainPartition
    \/ ReadFilename
    \/ Write

Spec == Init /\ [][Next]_vars

----------------------------------------------------------------------------
(* partitionTemporalOperators on its own: formulas holding the pattern     *)
(* with every pair of bounds, and every set of partition points.           *)

MaxBound == 4
MaxPoint == 4

\* the partition points of the 30 s signal
SignalPoints == {5, 8, 10, 15, 20}

BoundTexts ==
    {to_string(n) : n \in 0..MaxBound}
        \cup {<<"2", "0">>, <<"1", ".", "5">>, <<"0", "7">>, <<".">>}

PointSets == (SUBSET (0..MaxPoint)) \cup {SignalPoints}

GText(a, b) == <<"G", " ", "[">> \o a \o <<",", " ">> \o b \o <<"]", " ">> \o UntilText

GCompact(a, b) ==
    <<"G", "[">> \o a \o <<",">> \o b
        \o <<"]", "(", "(", "p", "2", ")", "U", "(", "p", "3", ")", ")">>

PartFormulas ==
    UNION {{GText(a, b),
            GCompact(a, b),
            <<"F", " ">> \o GText(a, b) \o <<" ", "x">>,
            <<"x">> \o GText(a, b),
            GText(a, b) \o <<" ", "o", "r", " ">> \o GText(b, a)}
           : <<a, b>> \in BoundTexts \X BoundTexts}

InitPart ==
    /\ pc = "partition"
    /\ stlFormula = <<>>
    /\ atomicProps = <<>>
    /\ propMap = <<>>
    /\ t = DZero
    /\ signal = <<>>
    /\ i = 0
    /\ partitionPoints \in PointSets
    /\ mitlFormula \in PartFormulas
    /\ partitionedFormula = <<>>
    /\ renamedAgain = <<>>
    /\ filename = <<>>
    /\ outFile = NoFile
    /\ cout = <<>>
    /\ cerr = <<>>
    /\ exitStatus = -1

PartitionDone == Partition("done")

NextPart == PartitionDone

SpecPart == InitPart /\ [][NextPart]_vars

----------------------------------------------------------------------------
(* The renaming on its own: formulas put together from a few pieces.       *)

MaxPieces == 4

Pieces ==
    {<<"p", "2", "<", "2">>, <<"q", "<", "1">>, <<"<", "2">>, <<" ">>,
     <<"a", ">", "=", " ", "7">>, <<"y", ">", "0", ".", "3">>,
     <<"y", ">", "0", "x", "3">>}

RECURSIVE Joined(_)
Joined(n) ==
    IF n = 0 THEN {<<>>}
    ELSE Joined(n - 1) \cup {f \o piece : <<f, piece>> \in Joined(n - 1) \X Pieces}

RenameFormulas == Joined(MaxPieces)

InitRename ==
    /\ pc = "extract"
    /\ stlFormula \in RenameFormulas
    /\ atomicProps = <<>>
    /\ propMap = <<>>
    /\ t = DZero
    /\ signal = <<>>
    /\ i = 0
    /\ partitionPoints = {}
    /\ mitlFormula = <<>>
    /\ partitionedFormula = <<>>
    /\ renamedAgain = <<>>
    /\ filename = <<>>
    /\ outFile = NoFile
    /\ cout = <<>>
    /\ cerr = <<>>
    /\ exitStatus = -1

RenameExtract == Extract("map")
RenameBuildMap == BuildMap("replace")
RenameReplace == Replace("again")

NextRename == RenameExtract \/ RenameBuildMap \/ RenameReplace \/ ReplaceAgain

SpecRename == InitRename /\ [][NextRename]_vars


----------------------------------------------------------------------------
(* Properties of the signal and of its partition points.                   *)

\* the sample of iteration k of synthesizeSignal, which main prints as
\* t = k / 10
SampleAtTenths(k) == signal[k + 1].second

\* the sample indices whose Boolean triple differs from the one before
ChangeIndices == {k \in 2..Len(signal) : signal[k].second # signal[k - 1].second}

\* C3: constructStablePartitions on synthesizeSignal(30) returns exactly
\* {5, 8, 10, 15, 20}: the rounded times of the samples whose triple differs
\* from the preceding sample's.
C3_PartitionPoints ==
    pc = "done" =>
        /\ partitionPoints = {5, 8, 10, 15, 20}
        /\ partitionPoints = {signal[k].first.hi + (IF signal[k].first.mid >= 2^27 THEN 1 ELSE 0)
                                : k \in ChangeIndices}

C3_Witness ==
    /\ pc = "done"
    /\ Len(signal) >= 300
    /\ Cardinality(ChangeIndices) = 5
    /\ Cardinality(partitionPoints) = 5

\* the signal holds the sample of iteration k, and it is sample
Sampled(k, sample) == Len(signal) > k => SampleAtTenths(k) = sample

----------------------------------------------------------------------------
(* Properties of partitionTemporalOperators.                               *)

IsPrefix(u, s) == Len(u) <= Len(s) /\ SubSeq(s, 1, Len(u)) = u
IsSuffix(u, s) == Len(u) <= Len(s) /\ SubSeq(s, Len(s) - Len(u) + 1, Len(s)) = u

RECURSIVE SortedSeq(_)
SortedSeq(S) == IF S = {} THEN <<>> ELSE <<Min(S)>> \o SortedSeq(S \ {Min(S)})

\* the first match in the argument, its integer bounds and the text around it
FirstMatch == GSearch(mitlFormula)
BoundA == StodInt(FirstMatch.m1).value
BoundB == StodInt(FirstMatch.m2).value
Before == SubSeq(mitlFormula, 1, FirstMatch.from - 1)
After == SubSeq(mitlFormula, FirstMatch.end, Len(mitlFormula))

Partitioned(n) == pc = "done" /\ Cardinality(GStarts(mitlFormula)) = n

\* the text that stands in the result where the only match stood
Substituted ==
    SubSeq(partitionedFormula, Len(Before) + 1, Len(partitionedFormula) - Len(After))

ReplacedInPlace ==
    /\ Len(partitionedFormula) >= Len(Before) + Len(After)
    /\ IsPrefix(Before, partitionedFormula)
    /\ IsSuffix(After, partitionedFormula)

\* the G conjuncts of a text, as <<lo, hi>> pairs in their order
IntervalsOf(text) ==
    LET starts == SortedSeq(GStarts(text))
    IN  [k \in 1..Len(starts) |->
            <<StodInt(GMatchAt(text, starts[k]).m1).value,
              StodInt(GMatchAt(text, starts[k]).m2).value>>]

\* what stands between the conjuncts of a text, spaces dropped: before the
\* first (index 0), between the k-th and the next, and after the last
NotSpace(c) == c # " "
GapOf(text, k) ==
    LET starts == SortedSeq(GStarts(text))
        lo == IF k = 0 THEN 1 ELSE GMatchAt(text, starts[k]).end
        hi == IF k = Len(starts) THEN Len(text) ELSE starts[k + 1] - 1
    IN  SelectSeq(SubSeq(text, lo, hi), NotSpace)

JoinedByWedge(text) ==
    LET n == Cardinality(GStarts(text))
    IN  /\ \A k \in 1..(n - 1) : GapOf(text, k) = <<Wedge>>
        /\ GapOf(text, 0) = <<>>
        /\ GapOf(text, n) = <<>>

\* The intervals the specification describes: one ends at every partition
\* point of [a, b], one more ends at b when the last point is below b; each
\* starts one past the point before it, the first at a.
SpecIntervals(points, a, b) ==
    LET inside == {p \in points : a <= p /\ p <= b}
        ends   == inside \cup (IF a <= b THEN {b} ELSE {})
        lo(e)  == IF {p \in inside : p < e} = {} THEN a
                  ELSE Max({p \in inside : p < e}) + 1
        sorted == SortedSeq(ends)
    IN  [k \in 1..Len(sorted) |-> <<lo(sorted[k]), sorted[k]>>]

\* C1: with one match G [a, b] ((p2) U (p3)) in the formula, the match is
\* replaced in place by the conjuncts over the intervals [prev, t] for the
\* partition points t of [a, b] in ascending order, prev starting at a and
\* moving to t + 1, and [prev, b] at the end exactly when prev <= b, joined
\* by the conjunction sign; a = 0, b = 20 and the points {5, 8, 10, 15, 20}
\* give [0,5] [6,8] [9,10] [11,15] [16,20].
C1_Partitioning ==
    Partitioned(1) =>
        /\ ReplacedInPlace
        /\ IntervalsOf(Substituted) = SpecIntervals(partitionPoints, BoundA, BoundB)
        /\ JoinedByWedge(Substituted)
        /\ (BoundA = 0 /\ BoundB = 20 /\ partitionPoints = {5, 8, 10, 15, 20}) =>
              IntervalsOf(Substituted) =
                  << <<0, 5>>, <<6, 8>>, <<9, 10>>, <<11, 15>>, <<16, 20>> >>

C1_Witness ==
    /\ Partitioned(1)
    /\ BoundA = 0
    /\ BoundB = 20
    /\ partitionPoints = {5, 8, 10, 15, 20}
    /\ Len(IntervalsOf(Substituted)) = 5

\* C2 as stated: when the pattern occurs more than once only the first
\* occurrence is rewritten, and the text after it, with every further
\* occurrence, stands unchanged in the result.
C2_OnlyFirstRewritten ==
    (pc = "done" /\ Cardinality(GStarts(mitlFormula)) > 1) =>
        /\ IsPrefix(Before, partitionedFormula)
        /\ IsSuffix(After, partitionedFormula)

WedgeCount(text) == Cardinality({k \in 1..Len(text) : text[k] = Wedge})

\* C9: for a match with a <= b the intervals emitted partition a..b: the
\* first starts at a, the last ends at b, none is empty, each starts one past
\* the end of the one before, and there is one conjunction sign fewer than
\* intervals, none leading and none dangling.
C9_ExactPartition ==
    (Partitioned(1) /\ BoundA <= BoundB) =>
        LET iv == IntervalsOf(Substituted)
            n  == Len(iv)
        IN  /\ n >= 1
            /\ iv[1][1] = BoundA
            /\ iv[n][2] = BoundB
            /\ \A k \in 1..n : iv[k][1] <= iv[k][2]
            /\ \A k \in 2..n : iv[k][1] = iv[k - 1][2] + 1
            /\ WedgeCount(Substituted) = n - 1
            /\ SelectSeq(Substituted, NotSpace)[1] # Wedge
            /\ Substituted[Len(Substituted) - 1] # Wedge

C9_Witness ==
    /\ Partitioned(1)
    /\ BoundA < BoundB
    /\ BoundB \in partitionPoints
    /\ Len(IntervalsOf(Substituted)) = 3

\* C10 as stated: whenever the pattern matches, for any bounds a and b, the
\* text put in its place holds at least one G conjunct.
C10_AsStated == Partitioned(1) => Len(IntervalsOf(Substituted)) >= 1

\* C10 amended: the text put in the place of a match with a <= b holds at
\* least one G conjunct; with a > b it is the empty string.
C10_NeverEmptyInOrder ==
    Partitioned(1) =>
        /\ BoundA <= BoundB => Len(IntervalsOf(Substituted)) >= 1
        /\ BoundA > BoundB => Substituted = <<>>

C10_Witness ==
    /\ Partitioned(1)
    /\ BoundA <= BoundB
    /\ {p \in partitionPoints : BoundA <= p /\ p <= BoundB} = {}
    /\ Len(IntervalsOf(Substituted)) = 1

----------------------------------------------------------------------------
(* Properties of the proposition map and of the renaming.                  *)

MapBuilt == pc \in {"replace", "again", "done"}

GeneratedName(k) == <<"p">> \o to_string(k)

\* C5 as stated: the k-th key of the map, in the map's order, is mapped to pk.
C5_NamesInMapOrder ==
    MapBuilt => \A k \in 1..Len(propMap) : propMap[k].second = GeneratedName(k)

LastIndex(props, prop) == Max({j \in 1..Len(props) : props[j] = prop})

\* C5 amended: the map holds the extracted propositions in lexicographic
\* order of their text, and each is mapped to the name of its place in the
\* extracted list: pj for the proposition whose last occurrence is the j-th
\* extracted.
C5_NamesInExtractionOrder ==
    MapBuilt =>
        /\ {propMap[k].first : k \in 1..Len(propMap)} = Range(atomicProps)
        /\ \A k \in 1..(Len(propMap) - 1) : StrLess(propMap[k].first, propMap[k + 1].first)
        /\ \A k \in 1..Len(propMap) :
              propMap[k].second = GeneratedName(LastIndex(atomicProps, propMap[k].first))

C5_Witness ==
    /\ MapBuilt
    /\ Len(propMap) >= 2
    /\ Len(atomicProps) > Len(propMap)
    /\ propMap[1].second # GeneratedName(1)

NoMetacharacter(props) ==
    \A k \in 1..Len(props) : \A j \in 1..Len(props[k]) : props[k][j] # "."

\* C8 as stated: when no extracted proposition holds a regex metacharacter,
\* replaceAtomicProps applied to its own result, with the same map, returns
\* that result unchanged.
C8_Idempotent ==
    (pc = "done" /\ NoMetacharacter(atomicProps)) => renamedAgain = mitlFormula

\* the \w+ a proposition starts with
Identifier(prop) == SubSeq(prop, 1, WordEnd(prop, 1) - 1)

NoGeneratedIdentifier(map) ==
    \A k \in 1..Len(map) : \A j \in 1..Len(map) : Identifier(map[k].first) # map[j].second

\* C8 amended: when no extracted proposition holds a regex metacharacter and
\* none has one of the map's generated names as its identifier, the second
\* application returns the result of the first unchanged.
C8_IdempotentWithoutGeneratedNames ==
    (pc = "done" /\ NoMetacharacter(atomicProps) /\ NoGeneratedIdentifier(propMap)) =>
        renamedAgain = mitlFormula

C8_Witness ==
    /\ pc = "done"
    /\ NoMetacharacter(atomicProps)
    /\ NoGeneratedIdentifier(propMap)
    /\ Len(propMap) >= 2
    /\ \E k \in 1..Len(propMap) : Identifier(propMap[k].first) = <<"p", "2">>
    /\ mitlFormula # stlFormula
    /\ renamedAgain = mitlFormula

----------------------------------------------------------------------------
(* Properties of writeMITLToFile and of the exit status.                   *)

\* C6: when the file does not open, the error goes to the diagnostic
\* stream, no formula is written and no success is reported; when it opens,
\* the formula is written once and the path reported on standard output;
\* the exit status is 0 either way.
C6_OpenFailureReported ==
    pc = "done" =>
        /\ exitStatus = 0
        /\ outFile.is_open =>
              /\ outFile.data = <<partitionedFormula>>
              /\ cout = <<<<WrittenText, outFile.name>>>>
              /\ cerr = <<>>
        /\ ~outFile.is_open =>
              /\ outFile.data = <<>>
              /\ cout = <<>>
              /\ cerr = <<<<ErrorText, outFile.name>>>>

C6_Witness ==
    /\ pc = "done"
    /\ ~outFile.is_open
    /\ Len(cerr) = 1
    /\ partitionedFormula # <<>>
    /\ exitStatus = 0

HoldsMitl(name) == \E k \in 1..(Len(name) - 4) : SubSeq(name, k, k + 4) = MitlExtension

ResultName == <<"r", "e", "s", "u", "l", "t">>
DataMitlBak == <<"d", "a", "t", "a", ".", "m", "i", "t", "l", ".", "b", "a", "k">>

\* C7: the file opened is filename + ".mitl" exactly when ".mitl" stands
\* nowhere in the filename, and the filename itself otherwise: "result"
\* gives "result.mitl", "result.mitl" gives "result.mitl" and
\* "data.mitl.bak" gives "data.mitl.bak".
C7_ExtensionBySubstring ==
    pc = "done" =>
        /\ ~HoldsMitl(filename) => outFile.name = filename \o MitlExtension
        /\ HoldsMitl(filename) => outFile.name = filename
        /\ filename = ResultName => outFile.name = ResultName \o MitlExtension
        /\ filename = ResultName \o MitlExtension => outFile.name = ResultName \o MitlExtension
        /\ filename = DataMitlBak => outFile.name = DataMitlBak

C7_Witness ==
    /\ pc = "done"
    /\ filename = DataMitlBak
    /\ outFile.name = DataMitlBak

====
